---- MODULE Spec2Model ----
(***************************************************************************)
(* A model of src/app.py, the Streamlit dashboard script.                  *)
(*                                                                         *)
(* The script is run top to bottom once per user interaction (a rerun).    *)
(* One run is: compile the file, load the three spreadsheets (memoised by  *)
(* st.cache_data), read the sidebar radio, execute one view block.         *)
(*                                                                         *)
(* Three specifications are given.                                         *)
(*   Spec       the file as it is shipped: the run starts with the         *)
(*              compilation of the file, which Python's grammar decides.   *)
(*   SpecViews  the statements of the file executed in the order the       *)
(*              if/elif layout of lines 33-204 describes (load, then the   *)
(*              block of the selected view), i.e. what each block's code   *)
(*              does when it is run.                                       *)
(*   SpecEstimate  the live estimation request of the repository's other   *)
(*              dashboard variant, which is not part of src/.              *)
(*                                                                         *)
(* Cell values are whole numbers; a missing cell (NaN) is not modelled.    *)
(***************************************************************************)
EXTENDS Integers, Sequences, FiniteSets, TLC

VARIABLES
    files,           \* the three spreadsheets on disk: [df, causal, cate]
    cache,           \* st.cache_data's memo of load_data()
    df,              \* script global df (line 21)
    causal_results,  \* script global causal_results (line 21)
    cate_results,    \* script global cate_results (line 21)
    view,            \* value of the sidebar radio (line 25)
    pc,              \* position of the current run
    error,           \* exception that left the script uncaught, or "none"
    rendered,        \* views whose block has been entered in this run
    offered,         \* options handed to the variable selectbox
    messages,        \* st.warning texts emitted in this run
    chart_rows,      \* dataset rows handed to the map / line chart
    best_idx,        \* best_idx of line 119 (0: not computed)
    metric,          \* best_model, ate, ci_low, ci_high of lines 120-129
    prev_idx,        \* best_idx of the latest earlier run that computed one
    summary,         \* count / mean / std of lines 175-177
    request,         \* estimation request (other variant)
    est_pc,          \* position of the estimation request
    fit_started,     \* whether the fitting step has begun
    est_error        \* error reported for the estimation request

vars == <<files, cache, df, causal_results, cate_results, view, pc, error,
          rendered, offered, messages, chart_rows, best_idx, metric, prev_idx,
          summary, request, est_pc, fit_started, est_error>>

run_out == <<error, rendered, offered, messages, chart_rows, best_idx, metric, summary>>
est_vars == <<request, est_pc, fit_started, est_error>>
tables == <<df, causal_results, cate_results>>

(***************************************************************************)
(* Bounds                                                                  *)
(***************************************************************************)
MaxRows == 2    \* rows of the result table
MaxVal == 1     \* magnitude of a cell value
MaxCate == 3    \* rows of the conditional-effect table
MaxYears == 2   \* distinct years of the dataset

(***************************************************************************)
(* Constants of the script                                                 *)
(***************************************************************************)
Views == <<"Map View", "Trend Comparison", "Model Results", "CATE Visualization">>
ViewSet == {Views[i] : i \in 1..Len(Views)}

VariableOptions == {"ghg_emissions", "gdp_per_capita", "gov_effectiveness"}
DefaultCountries == {"Ghana", "Nigeria", "South Africa"}
MetricCols == {"Model", "ATE", "CI_low", "CI_high"}

\* top-level statements of lines 33-172, by the keyword that opens them
TopLevel == <<"if", "elif", "elif", "stmt", "elif">>

(***************************************************************************)
(* Input spreadsheets                                                      *)
(***************************************************************************)
KeyCols == {"country", "year"}
AllDfCols == KeyCols \cup VariableOptions \cup {"population"}
Countries == DefaultCountries \cup {"Kenya"}
Years == 1..MaxYears

CausalCols == MetricCols \cup {"abs_ATE"}
CateCols == {"CATE", "gdp_per_capita", "gov_effectiveness", "country"}
ModelNames == <<"LinearDML", "CausalForestDML", "DRLearner", "OLS">>

Abs(x) == IF x < 0 THEN -x ELSE x

NoDf == [readable |-> FALSE, cols |-> {}, rows |-> {}]
NoTable == [readable |-> FALSE, cols |-> {}, rows |-> <<>>]

\* balanced country x year panels with the usual columns, and the usual panel
\* (or no row at all) with any subset of the columns
DfFiles ==
    {NoDf} \cup
    {[readable |-> TRUE, cols |-> KeyCols \cup VariableOptions, rows |-> cs \X ys] :
        cs \in SUBSET Countries, ys \in SUBSET Years} \cup
    {[readable |-> TRUE, cols |-> c, rows |-> cs \X Years] :
        c \in SUBSET AllDfCols, cs \in {{}, DefaultCountries}}

CausalRow(i, a, b) ==
    [Model |-> ModelNames[i], ATE |-> a, CI_low |-> a - 1, CI_high |-> a + 1, abs_ATE |-> b]

CausalRowSeqs(maxlen) ==
    UNION {
        {[i \in 1..n |-> CausalRow(i, f[i][1], f[i][2])] :
            f \in [1..n -> (-MaxVal..MaxVal) \X (0..MaxVal)]}
        : n \in 0..maxlen}

\* all tables with the five columns, and short tables with one column missing
CausalFiles ==
    {NoTable} \cup
    {[readable |-> TRUE, cols |-> CausalCols, rows |-> r] : r \in CausalRowSeqs(MaxRows)} \cup
    {[readable |-> TRUE, cols |-> CausalCols \ {c}, rows |-> r] :
        c \in CausalCols, r \in CausalRowSeqs(1)}

CateSeqs(maxlen) == UNION {[1..n -> -MaxVal..MaxVal] : n \in 0..maxlen}

\* all tables with the four columns, and short tables with any subset of them
CateFiles ==
    {NoTable} \cup
    {[readable |-> TRUE, cols |-> CateCols, rows |-> r] : r \in CateSeqs(MaxCate)} \cup
    {[readable |-> TRUE, cols |-> c, rows |-> r] : c \in SUBSET CateCols, r \in CateSeqs(1)}

NominalDf == [readable |-> TRUE, cols |-> KeyCols \cup VariableOptions,
              rows |-> DefaultCountries \X Years]
NominalCausal == [readable |-> TRUE, cols |-> CausalCols,
                  rows |-> <<CausalRow(1, 1, 1)>>]
NominalCate == [readable |-> TRUE, cols |-> CateCols, rows |-> <<1, 0>>]

\* the spreadsheets found on disk: one of the three is arbitrary
Inputs ==
    {[df |-> d, causal |-> NominalCausal, cate |-> NominalCate] : d \in DfFiles} \cup
    {[df |-> NominalDf, causal |-> c, cate |-> NominalCate] : c \in CausalFiles} \cup
    {[df |-> NominalDf, causal |-> NominalCausal, cate |-> k] : k \in CateFiles}

(***************************************************************************)
(* pandas operations used by the script                                    *)
(***************************************************************************)
RECURSIVE Sum(_)
Sum(s) == IF Len(s) = 0 THEN 0 ELSE Head(s) + Sum(Tail(s))

RECURSIVE SumSq(_)
SumSq(s) == IF Len(s) = 0 THEN 0 ELSE Head(s) * Head(s) + SumSq(Tail(s))

\* table[c] for a table whose rows are records
Column(t, c) == [i \in 1..Len(t.rows) |-> t.rows[i][c]]

\* Series.idxmax(): the label of the first occurrence of the maximum; no label
\* for an empty series (pandas raises ValueError).  Labels are the row
\* positions (read_excel gives a RangeIndex), counted from 1 here.
idxmaxAnyTie(s) == {i \in 1..Len(s) : \A j \in 1..Len(s) : s[j] <= s[i]}
idxmax(s) ==
    {i \in 1..Len(s) : /\ \A j \in 1..Len(s) : s[j] <= s[i]
                       /\ \A j \in 1..(i - 1) : s[j] < s[i]}

\* the series the best model is read from (line 119)
BestModelKeyATE(t) == Column(t, "ATE")
BestModelKey(t) == Column(t, "abs_ATE")

\* a float result: NaN, or the exact fraction num / den
NaN == [nan |-> TRUE, num |-> 0, den |-> 0]
Frac(n, d) == [nan |-> FALSE, num |-> n, den |-> d]

\* Series.mean(): NaN for an empty series
mean(s) == IF Len(s) = 0 THEN NaN ELSE Frac(Sum(s), Len(s))

\* the square of Series.std(ddof): sum of squared deviations over (n - ddof),
\* NaN when n - ddof <= 0.  The standard deviation is its square root, so it
\* is 0 exactly when this is 0.
StdSq(s, ddof) ==
    LET n == Len(s) IN
    IF n - ddof <= 0 THEN NaN
    ELSE Frac(n * SumSq(s) - Sum(s) * Sum(s), n * (n - ddof))

stdPopulation(s) == StdSq(s, 0)
\* Series.std(): pandas' default is the sample standard deviation, ddof = 1
std(s) == StdSq(s, 1)

NoMetric == [shown |-> FALSE, best_model |-> "", ate |-> 0, ci_low |-> 0, ci_high |-> 0]
NoSummary == [lines |-> 0, count |-> 0, mean |-> NaN, std |-> NaN]
NoCache == [valid |-> FALSE, df |-> NoDf, causal |-> NoTable, cate |-> NoTable]
NoRequest == [outcome |-> "", treatment |-> "", controls |-> {}, estimator |-> "",
              enough_rows |-> FALSE]

(***************************************************************************)
(* Compilation of the file                                                 *)
(***************************************************************************)
\* Python's grammar: an elif continues the if statement that the statement
\* right before it belongs to
ChainOK(s) ==
    \A i \in 1..Len(s) : s[i] = "elif" => (i > 1 /\ s[i - 1] \in {"if", "elif"})

RunStart ==
    /\ error = "none" /\ rendered = {} /\ offered = {} /\ messages = {}
    /\ chart_rows = {} /\ best_idx = 0 /\ metric = NoMetric /\ summary = NoSummary
    /\ df = NoDf /\ causal_results = NoTable /\ cate_results = NoTable

\* every run starts with fresh script globals and an empty page
ResetRun ==
    /\ error' = "none" /\ rendered' = {} /\ offered' = {} /\ messages' = {}
    /\ chart_rows' = {} /\ best_idx' = 0 /\ metric' = NoMetric /\ summary' = NoSummary
    /\ df' = NoDf /\ causal_results' = NoTable /\ cate_results' = NoTable

EstIdle ==
    /\ request = NoRequest /\ est_pc = "idle" /\ fit_started = FALSE /\ est_error = "none"

Init ==
    /\ files \in Inputs
    /\ cache = NoCache
    /\ view \in ViewSet
    /\ pc = "compile"
    /\ prev_idx = 0
    /\ RunStart
    /\ EstIdle

Compile ==
    /\ pc = "compile"
    /\ IF ChainOK(TopLevel)
       THEN pc' = "load" /\ error' = error
       ELSE pc' = "done" /\ error' = "SyntaxError"
    /\ UNCHANGED <<files, cache, tables, view, rendered, offered, messages, chart_rows,
                   best_idx, metric, prev_idx, summary, est_vars>>

\* a user interaction: the script is run again from `entry`
Rerun(entry) ==
    /\ pc = "done"
    /\ view' \in ViewSet
    /\ pc' = entry
    /\ prev_idx' = IF best_idx # 0 THEN best_idx ELSE prev_idx
    /\ ResetRun
    /\ UNCHANGED <<files, cache, est_vars>>

RerunScript == Rerun("compile")

Next == Compile \/ RerunScript

Spec == Init /\ [][Next]_vars

(***************************************************************************)
(* The script's statements: load_data and the four view blocks             *)
(***************************************************************************)
\* load_data's body: the three read_excel calls and the returned triple
load_data(f) == [valid |-> TRUE, df |-> f.df, causal |-> f.causal, cate |-> f.cate]

\* an exception leaves the script: the run is over
Raise(e) == error' = e /\ pc' = "done"
Finish == error' = "none" /\ pc' = "done"

\* lines 14-21: the memoised call of load_data and the assignment of the globals
Load ==
    /\ pc = "load"
    /\ IF cache.valid
       THEN /\ df' = cache.df /\ causal_results' = cache.causal /\ cate_results' = cache.cate
            /\ pc' = "view"
            /\ UNCHANGED <<cache, error>>
       ELSE IF \E t \in {files.df, files.causal, files.cate} : ~t.readable
       THEN /\ Raise("FileNotFoundError")
            /\ UNCHANGED <<cache, tables>>
       ELSE /\ cache' = load_data(files)
            /\ df' = cache'.df /\ causal_results' = cache'.causal /\ cate_results' = cache'.cate
            /\ pc' = "view"
            /\ UNCHANGED error
    /\ UNCHANGED <<files, view, rendered, offered, messages, chart_rows,
                   best_idx, metric, prev_idx, summary, est_vars>>

\* what a view block leaves alone: it assigns to none of the loaded tables
ViewFrameRecomputesAbs ==
    /\ causal_results' =
         [causal_results EXCEPT !.rows =
             [i \in 1..Len(causal_results.rows) |->
                 [causal_results.rows[i] EXCEPT !.abs_ATE = Abs(causal_results.rows[i].ATE)]]]
    /\ UNCHANGED <<files, cache, df, cate_results, view, prev_idx, est_vars>>
ViewFrame == UNCHANGED <<files, cache, tables, view, prev_idx, est_vars>>

\* lines 33-59
MapView ==
    /\ pc = "view" /\ view = "Map View"
    /\ rendered' = {view}
    /\ IF "year" \notin df.cols
       THEN Raise("KeyError") /\ offered' = {} /\ chart_rows' = {}
       ELSE IF df.rows = {}
       THEN Raise("ValueError") /\ offered' = {} /\ chart_rows' = {}
       ELSE \E year \in {r[2] : r \in df.rows}, variable \in VariableOptions :
               /\ offered' = VariableOptions
               /\ IF {"country", variable} \subseteq df.cols
                  THEN chart_rows' = {r \in df.rows : r[2] = year} /\ Finish
                  ELSE chart_rows' = {} /\ Raise("ValueError")
    /\ UNCHANGED <<messages, best_idx, metric, summary>>
    /\ ViewFrame

\* lines 64-91
TrendComparison ==
    /\ pc = "view" /\ view = "Trend Comparison"
    /\ rendered' = {view}
    /\ IF "country" \notin df.cols
       THEN Raise("KeyError") /\ offered' = {} /\ chart_rows' = {} /\ messages' = {}
       ELSE IF ~(DefaultCountries \subseteq {r[1] : r \in df.rows})
       THEN Raise("StreamlitAPIException") /\ offered' = {} /\ chart_rows' = {}
            /\ messages' = {}
       ELSE \E countries \in SUBSET {r[1] : r \in df.rows}, variable \in VariableOptions :
               /\ offered' = VariableOptions
               /\ IF countries = {}
                  THEN /\ messages' = {"Please select at least one country to display trends."}
                       /\ chart_rows' = {} /\ Finish
                  ELSE /\ messages' = {}
                       /\ IF {"year", variable} \subseteq df.cols
                          THEN chart_rows' = {r \in df.rows : r[1] \in countries} /\ Finish
                          ELSE chart_rows' = {} /\ Raise("ValueError")
    /\ UNCHANGED <<best_idx, metric, summary>>
    /\ ViewFrame

\* lines 96-167
ModelResults ==
    /\ pc = "view" /\ view = "Model Results"
    /\ rendered' = {view}
    /\ messages' = IF MetricCols \subseteq causal_results.cols
                   THEN {}
                   ELSE {"Confidence intervals not available for visualization."}
    /\ IF "abs_ATE" \notin causal_results.cols
       THEN Raise("KeyError") /\ best_idx' = 0 /\ metric' = NoMetric
       ELSE IF idxmax(BestModelKey(causal_results)) = {}
       THEN Raise("ValueError") /\ best_idx' = 0 /\ metric' = NoMetric
       ELSE \E i \in idxmax(BestModelKey(causal_results)) :
               /\ best_idx' = i
               /\ IF MetricCols \subseteq causal_results.cols
                  THEN /\ metric' = [shown |-> TRUE,
                                     best_model |-> causal_results.rows[i].Model,
                                     ate |-> causal_results.rows[i].ATE,
                                     ci_low |-> causal_results.rows[i].CI_low,
                                     ci_high |-> causal_results.rows[i].CI_high]
                       /\ Finish
                  ELSE metric' = NoMetric /\ Raise("KeyError")
    /\ UNCHANGED <<offered, chart_rows, summary>>
    /\ ViewFrame

\* lines 172-204
CateVisualization ==
    /\ pc = "view" /\ view = "CATE Visualization"
    /\ rendered' = {view}
    /\ IF "CATE" \notin cate_results.cols
       THEN /\ summary' = [lines |-> 1, count |-> Len(cate_results.rows),
                           mean |-> NaN, std |-> NaN]
            /\ Raise("KeyError")
       ELSE /\ summary' = [lines |-> 3, count |-> Len(cate_results.rows),
                           mean |-> mean(cate_results.rows),
                           std |-> std(cate_results.rows)]
            /\ IF {"gdp_per_capita", "gov_effectiveness"} \subseteq cate_results.cols
               THEN Finish
               ELSE Raise("ValueError")
    /\ UNCHANGED <<offered, messages, chart_rows, best_idx, metric>>
    /\ ViewFrame

RerunViews == Rerun("load")

InitViews ==
    /\ files \in Inputs
    /\ cache = NoCache
    /\ view \in ViewSet
    /\ pc = "load"
    /\ prev_idx = 0
    /\ RunStart
    /\ EstIdle

NextViews ==
    \/ Load
    \/ MapView
    \/ TrendComparison
    \/ ModelResults
    \/ CateVisualization
    \/ RerunViews

SpecViews == InitViews /\ [][NextViews]_vars

(***************************************************************************)
(* The live estimation request (the repository's other dashboard variant)  *)
(***************************************************************************)
Catalog == VariableOptions
Estimators == {"LinearDML", "DRLearner", "CausalForestDML"}

Requests ==
    [outcome : Catalog, treatment : Catalog, controls : SUBSET Catalog,
     estimator : Estimators, enough_rows : BOOLEAN]

\* outcome # treatment, and no control is the outcome or the treatment
ValidRequestIgnoringControls(r) == r.outcome # r.treatment
ValidRequest(r) ==
    /\ r.outcome # r.treatment
    /\ r.controls \cap {r.outcome, r.treatment} = {}

\* the user presses run
Submit ==
    /\ est_pc \in {"idle", "failed", "done"}
    /\ request' \in Requests
    /\ est_pc' = "validate"
    /\ fit_started' = FALSE
    /\ est_error' = "none"
    /\ UNCHANGED <<files, cache, tables, view, pc, run_out, prev_idx>>

\* the preconditions enforced before delegating to the estimator
Validate ==
    /\ est_pc = "validate"
    /\ IF ValidRequest(request)
       THEN est_pc' = "sample" /\ UNCHANGED est_error
       ELSE est_pc' = "failed" /\ est_error' = "ValidationError"
    /\ UNCHANGED <<files, cache, tables, view, pc, run_out, prev_idx, request, fit_started>>

\* the minimum viable sample after dropping rows with a null
CheckSample ==
    /\ est_pc = "sample"
    /\ IF request.enough_rows
       THEN est_pc' = "fit" /\ UNCHANGED est_error
       ELSE est_pc' = "failed" /\ est_error' = "InsufficientDataError"
    /\ UNCHANGED <<files, cache, tables, view, pc, run_out, prev_idx, request, fit_started>>

\* fit, then report; the underlying procedure may fail
Fit ==
    /\ est_pc = "fit"
    /\ fit_started' = TRUE
    /\ \E ok \in BOOLEAN :
          IF ok
          THEN est_pc' = "done" /\ UNCHANGED est_error
          ELSE est_pc' = "failed" /\ est_error' = "EstimationError"
    /\ UNCHANGED <<files, cache, tables, view, pc, run_out, prev_idx, request>>

InitEstimate ==
    /\ files = [df |-> NominalDf, causal |-> NominalCausal, cate |-> NominalCate]
    /\ cache = NoCache
    /\ view = Views[1]
    /\ pc = "load"
    /\ prev_idx = 0
    /\ RunStart
    /\ EstIdle

NextEstimate == Submit \/ Validate \/ CheckSample \/ Fit

SpecEstimate == InitEstimate /\ [][NextEstimate]_vars

(***************************************************************************)
(* Properties                                                              *)
(***************************************************************************)
Rows == causal_results.rows

\* the metric of lines 125-129 shows row i
DisplayedRowIs(i) ==
    /\ metric.best_model = Rows[i].Model
    /\ metric.ate = Rows[i].ATE
    /\ metric.ci_low = Rows[i].CI_low
    /\ metric.ci_high = Rows[i].CI_high

\* the precomputed abs_ATE column holds |ATE| in every row
AbsColumnConsistent == \A j \in 1..Len(Rows) : Rows[j].abs_ATE = Abs(Rows[j].ATE)

ModelResultsDone == pc = "done" /\ view = "Model Results" /\ causal_results.readable

C2_AsClaimed ==
    (ModelResultsDone /\ causal_results.cols = CausalCols /\ Len(Rows) = 0)
        => error = "EmptyTableError"

\* C3 as stated: no run ends with an exception leaving the script uncaught,
\* whatever view is selected and whatever the three files hold.
C3_AsClaimed == pc = "done" => error = "none"

\* an unreadable or empty dataset, or one without the key columns
BadDataset(d) == ~d.readable \/ d.rows = {} \/ ~(KeyCols \subseteq d.cols)

\* C4 as stated: a run on an unreadable or empty dataset, or one lacking
\* country or year, ends in an error and enters no view block.
C4_AsClaimed ==
    (pc = "done" /\ BadDataset(files.df)) => (error # "none" /\ rendered = {})

\* C5 as stated: the options handed to the variable selectbox of Map View and
\* Trend Comparison are the dataset's columns other than country and year.
C5_AsClaimed == offered # {} => offered = df.cols \ KeyCols

\* C6: once loaded, the result table the script holds, and the memoised copy,
\* equal the table of the file, in every state of every sequence of reruns.
C6_TableNeverMutated ==
    /\ cache.valid => cache.causal = files.causal
    /\ causal_results.readable => causal_results = files.causal

\* the best model has been derived in an earlier run and again in this one,
\* on a table whose abs_ATE column is not |ATE|
C6_Witness ==
    /\ ModelResultsDone /\ metric.shown /\ prev_idx # 0
    /\ ~AbsColumnConsistent

Identical(s) == \A i, j \in 1..Len(s) : s[i] = s[j]
IsValue(x, v) == ~x.nan /\ x.num = v * x.den
CateShown == summary.lines = 3 /\ cate_results.readable

C9_InvalidRequestFailsBeforeFit ==
    (/\ est_pc \notin {"idle", "validate"}
     /\ \/ request.outcome = request.treatment
        \/ request.controls \cap {request.outcome, request.treatment} # {})
        => (est_pc = "failed" /\ est_error = "ValidationError" /\ ~fit_started)

C9_Witness ==
    /\ est_error = "ValidationError"
    /\ request.outcome # request.treatment
    /\ request.treatment \in request.controls

\* C10 as stated: a run executes the block of the selected view and of no
\* other view.
C10_AsClaimed == pc = "done" => rendered = {view}

====
